---- MODULE Spec2Model ----
(***************************************************************************)
(* svd2rust command line driver (src/main.rs): target selection, input     *)
(* reading, rendering, output writing, error reporting in main, and the    *)
(* build script that build_rs() generates.  Invocations of the program     *)
(* follow each other on one persistent working directory.                  *)
(***************************************************************************)
EXTENDS Integers, Sequences, FiniteSets, TLC

VARIABLES
  pc,          \* position of the process in run()/main()
  targetArg,   \* matches.value_of("target")
  inputArg,    \* matches.value_of("input")
  nightlyArg,  \* matches.is_present("nightly_features")
  target,      \* local `target` of run()
  xml,         \* local `xml` of run()
  req,         \* arguments of the call generate::device::render(...)
  items,       \* local `items` of run()
  device_x,    \* local `device_x` of run()
  returned,    \* what run() returned: "none" (not yet), "ok", "err"
  chain,       \* the error chain of the Err that run() returned
  calls,       \* calls made so far by this invocation, in order
  fs,          \* the working directory: lib.rs, device.x, build.rs
  fs0,         \* the working directory when this invocation started
  created,     \* files this invocation has passed to File::create successfully
  stdout,      \* standard output of this invocation
  errLog,      \* records this invocation has handed to error!()
  idx,         \* position of main's loop over the error chain
  exitStatus,  \* process exit status; -1 while running
  prev,        \* the last invocation that returned Ok
  bpc,         \* position of the generated build script
  rt,          \* env::var_os("CARGO_FEATURE_RT").is_some() in the build script
  outFile,     \* $OUT_DIR/device.x
  cargoOut     \* standard output of the build script (cargo directives)

vars == <<pc, targetArg, inputArg, nightlyArg, target, xml, req, items,
          device_x, returned, chain, calls, fs, fs0, created, stdout, errLog,
          idx, exitStatus, prev, bpc, rt, outFile, cargoOut>>

runVars == <<pc, targetArg, inputArg, nightlyArg, target, xml, req, items,
             device_x, returned, chain, calls, fs, fs0, created, stdout,
             errLog, idx, exitStatus, prev>>

buildVars == <<bpc, rt, outFile, cargoOut>>

----------------------------------------------------------------------------
\* Inputs

NoArg == "<absent>"

AcceptedSelectors == {"cortex-m", "msp430", "riscv", "none"}

\* values given to --target on the command line
Selectors == AcceptedSelectors \cup {"arm", "CORTEX-M"}

\* values given to -i on the command line
InputFiles == {"in.svd"}

\* documents found in the input file or on standard input
Docs == {"svdA", "svdOverlap"}

OutFiles == {"lib.rs", "device.x", "build.rs"}

----------------------------------------------------------------------------
\* Values

Msg(m, a) == [msg |-> m, arg |-> a]

Text(k, d, t, n) == [kind |-> k, dev |-> d, tgt |-> t, flag |-> n]

NoText == Text("", "", "", FALSE)

NoReq == [device |-> "", target |-> "", nightly |-> FALSE]

NoFile == [exists |-> FALSE, data |-> <<>>]

NoPrev == [valid |-> FALSE, xml |-> "", nightly |-> FALSE, req |-> NoReq,
           files |-> [f \in OutFiles |-> NoFile], out |-> <<>>]

\* enum Target
Targets == {"CortexM", "Msp430", "RISCV", "None"}

\* Target::parse with a catch-all arm that yields a variant
TargetParse_CatchAll(s) ==
  CASE s = "cortex-m" -> [ok |-> TRUE,  val |-> "CortexM", err |-> Msg("", "")]
    [] s = "msp430"   -> [ok |-> TRUE,  val |-> "Msp430",  err |-> Msg("", "")]
    [] s = "riscv"    -> [ok |-> TRUE,  val |-> "RISCV",   err |-> Msg("", "")]
    [] OTHER          -> [ok |-> TRUE,  val |-> "None",    err |-> Msg("", "")]

\* Target::parse: Ok(variant) or Err("unknown target {}")
TargetParse(s) ==
  CASE s = "cortex-m" -> [ok |-> TRUE,  val |-> "CortexM", err |-> Msg("", "")]
    [] s = "msp430"   -> [ok |-> TRUE,  val |-> "Msp430",  err |-> Msg("", "")]
    [] s = "riscv"    -> [ok |-> TRUE,  val |-> "RISCV",   err |-> Msg("", "")]
    [] s = "none"     -> [ok |-> TRUE,  val |-> "None",    err |-> Msg("", "")]
    [] OTHER          -> [ok |-> FALSE, val |-> "",
                          err |-> Msg("unknown target", s)]

\* the selection with Target::None as the default
SelectedTarget_DefaultNone(arg) ==
  IF arg = NoArg
    THEN [ok |-> TRUE, val |-> "None", err |-> Msg("", "")]
    ELSE TargetParse(arg)

\* matches.value_of("target").map(Target::parse).unwrap_or(Ok(CortexM))
SelectedTarget(arg) ==
  IF arg = NoArg
    THEN [ok |-> TRUE, val |-> "CortexM", err |-> Msg("", "")]
    ELSE TargetParse(arg)

\* svd::parse(xml): the device model of a document
Parse(x) ==
  CASE x = "svdA"       -> "DeviceA"
    [] x = "svdOverlap" -> "DeviceOverlap"
    [] OTHER            -> "DeviceEmpty"

\* match matches.value_of("input"): Some(file) reads the file, None reads stdin
InputSource_AlwaysStdin(arg) == "stdin"

InputSource(arg) == IF arg # NoArg THEN "file" ELSE "stdin"

\* if target == Target::CortexM { files } else { println! }
OutputStep_FilesUnlessNone(t) == IF t # "None" THEN "create_lib" ELSE "print"

OutputStep(t) == IF t = "CortexM" THEN "create_lib" ELSE "print"

\* the flag handed over for CortexM only
RenderRequest_Masked(d, t, n) ==
  [device |-> d, target |-> t, nightly |-> (t = "CortexM" /\ n)]

\* the arguments run() hands to generate::device::render
RenderRequest(d, t, n) == [device |-> d, target |-> t, nightly |-> n]

\* generate::device::render: the items, the text left in device_x, or an error.
\* The flag changes the items for CortexM only; only CortexM fills device_x;
\* a device with overlapping peripherals is rejected.
Render(r) ==
  IF r.device = "DeviceOverlap"
    THEN [ok |-> FALSE, items |-> NoText, device_x |-> NoText,
          err |-> <<Msg("ModelError", r.device)>>]
    ELSE [ok |-> TRUE,
          items |-> Text("items", r.device, r.target,
                         IF r.target = "CortexM" THEN r.nightly ELSE FALSE),
          device_x |-> IF r.target = "CortexM"
                         THEN Text("vectors", r.device, r.target, FALSE)
                         ELSE Text("empty", "", "", FALSE),
          err |-> <<>>]

\* build_rs(): the tokens of the generated build script
build_rs == Text("build_rs", "", "", FALSE)

\* a file opened without truncation
FileCreate_Keep(dir, f) == [dir EXCEPT ![f].exists = TRUE]

\* File::create(name) that succeeded: the file exists and is empty
FileCreate(dir, f) == [dir EXCEPT ![f] = [exists |-> TRUE, data |-> <<>>]]

\* writeln!(file, "{}", t) that succeeded
Writeln(dir, f, t) == [dir EXCEPT ![f].data = Append(@, t)]

\* println!("{}", t) that succeeded
Println(out, t) == Append(out, t)

\* the artifacts of an invocation: the files it created and what it printed
Artifacts ==
  [files |-> [f \in OutFiles |-> IF f \in created THEN fs[f] ELSE NoFile],
   out |-> stdout]

----------------------------------------------------------------------------
\* The state before the first invocation

Init ==
  /\ pc = "exited"
  /\ targetArg = NoArg /\ inputArg = NoArg /\ nightlyArg = FALSE
  /\ target = "" /\ xml = "" /\ req = NoReq
  /\ items = NoText /\ device_x = NoText
  /\ returned = "none" /\ chain = <<>> /\ calls = <<>>
  /\ fs = [f \in OutFiles |-> NoFile]
  /\ fs0 = [f \in OutFiles |-> NoFile]
  /\ created = {} /\ stdout = <<>> /\ errLog = <<>> /\ idx = 0
  /\ exitStatus = 0
  /\ prev = NoPrev
  /\ bpc = "off" /\ rt = FALSE /\ outFile = NoFile /\ cargoOut = <<>>

\* a panic: the process ends without run() returning
Panicked ==
  /\ pc' = "exited"
  /\ exitStatus' = 101

\* return Err(c) from run()
ReturnErr(c) ==
  /\ returned' = "err"
  /\ chain' = c
  /\ pc' = "main"

----------------------------------------------------------------------------
\* run()

\* a new process: App::...get_matches() and setup_logging
GetMatches ==
  /\ pc = "exited"
  /\ \E t \in Selectors \cup {NoArg}, i \in InputFiles \cup {NoArg},
        n \in BOOLEAN :
       /\ targetArg' = t
       /\ inputArg' = i
       /\ nightlyArg' = n
  /\ prev' = IF exitStatus = 0 /\ returned = "ok"
               THEN [valid |-> TRUE, xml |-> xml, nightly |-> nightlyArg,
                     req |-> req,
                     files |-> Artifacts.files, out |-> Artifacts.out]
               ELSE prev
  /\ pc' = "target"
  /\ target' = "" /\ xml' = "" /\ req' = NoReq
  /\ items' = NoText /\ device_x' = NoText
  /\ returned' = "none" /\ chain' = <<>> /\ calls' = <<>>
  /\ fs0' = fs
  /\ created' = {} /\ stdout' = <<>> /\ errLog' = <<>> /\ idx' = 0
  /\ exitStatus' = -1
  /\ bpc' = "off" /\ rt' = FALSE /\ outFile' = NoFile /\ cargoOut' = <<>>
  /\ UNCHANGED fs

\* let target = matches.value_of("target").map(..).unwrap_or(Ok(CortexM))?
SelectTarget ==
  /\ pc = "target"
  /\ LET r == SelectedTarget(targetArg) IN
       IF r.ok
         THEN /\ target' = r.val
              /\ pc' = "input"
              /\ UNCHANGED <<returned, chain>>
         ELSE /\ ReturnErr(<<r.err>>)
              /\ UNCHANGED target
  /\ UNCHANGED <<targetArg, inputArg, nightlyArg, xml, req, items, device_x,
                 calls, fs, fs0, created, stdout, errLog, idx, exitStatus,
                 prev, buildVars>>

\* Some(file) => File::open(file).chain_err(..)?.read_to_string(xml).chain_err(..)?
ReadFile ==
  /\ pc = "input"
  /\ InputSource(inputArg) = "file"
  /\ \/ /\ calls' = Append(calls, "open_file")
        /\ ReturnErr(<<Msg("couldn't open the SVD file", inputArg),
                       Msg("io error", "open")>>)
        /\ UNCHANGED xml
     \/ /\ calls' = calls \o <<"open_file", "read_file">>
        /\ ReturnErr(<<Msg("couldn't read the SVD file", inputArg),
                       Msg("io error", "read")>>)
        /\ UNCHANGED xml
     \/ /\ calls' = calls \o <<"open_file", "read_file">>
        /\ \E d \in Docs : xml' = d
        /\ pc' = "parse"
        /\ UNCHANGED <<returned, chain>>
  /\ UNCHANGED <<targetArg, inputArg, nightlyArg, target, req, items,
                 device_x, fs, fs0, created, stdout, errLog, idx, exitStatus,
                 prev, buildVars>>

\* None => std::io::stdin().lock().read_to_string(xml).chain_err(..)?
ReadStdin ==
  /\ pc = "input"
  /\ InputSource(inputArg) = "stdin"
  /\ calls' = Append(calls, "read_stdin")
  /\ \/ /\ ReturnErr(<<Msg("couldn't read from stdin", ""),
                       Msg("io error", "read")>>)
        /\ UNCHANGED xml
     \/ /\ \E d \in Docs : xml' = d
        /\ pc' = "parse"
        /\ UNCHANGED <<returned, chain>>
  /\ UNCHANGED <<targetArg, inputArg, nightlyArg, target, req, items,
                 device_x, fs, fs0, created, stdout, errLog, idx, exitStatus,
                 prev, buildVars>>

\* lib.rs opened for CortexM before render is called
ParseAndRender_CreateFirst ==
  /\ pc = "parse"
  /\ LET r == RenderRequest(Parse(xml), target, nightlyArg)
         res == Render(r)
     IN /\ req' = r
        /\ calls' = calls \o <<"parse", "render">>
        /\ IF res.ok
             THEN /\ items' = res.items
                  /\ device_x' = res.device_x
                  /\ pc' = OutputStep(target)
                  /\ UNCHANGED <<returned, chain>>
             ELSE /\ ReturnErr(res.err)
                  /\ UNCHANGED <<items, device_x>>
  /\ IF target = "CortexM"
       THEN /\ fs' = FileCreate(fs, "lib.rs")
            /\ created' = created \cup {"lib.rs"}
       ELSE UNCHANGED <<fs, created>>
  /\ UNCHANGED <<targetArg, inputArg, nightlyArg, target, xml, fs0,
                 stdout, errLog, idx, exitStatus, prev, buildVars>>

\* let device = svd::parse(xml); let nightly = ..; render(&device, &target, nightly, &mut device_x)?
ParseAndRender ==
  /\ pc = "parse"
  /\ LET r == RenderRequest(Parse(xml), target, nightlyArg)
         res == Render(r)
     IN /\ req' = r
        /\ calls' = calls \o <<"parse", "render">>
        /\ IF res.ok
             THEN /\ items' = res.items
                  /\ device_x' = res.device_x
                  /\ pc' = OutputStep(target)
                  /\ UNCHANGED <<returned, chain>>
             ELSE /\ ReturnErr(res.err)
                  /\ UNCHANGED <<items, device_x>>
  /\ UNCHANGED <<targetArg, inputArg, nightlyArg, target, xml, fs, fs0,
                 created, stdout, errLog, idx, exitStatus, prev, buildVars>>

\* File::create(f).unwrap()
Create(f, at, next) ==
  /\ pc = at
  /\ \/ /\ fs' = FileCreate(fs, f)
        /\ created' = created \cup {f}
        /\ pc' = next
        /\ UNCHANGED exitStatus
     \/ /\ Panicked
        /\ UNCHANGED <<fs, created>>
  /\ UNCHANGED <<targetArg, inputArg, nightlyArg, target, xml, req, items,
                 device_x, returned, chain, calls, fs0, stdout, errLog, idx,
                 prev, buildVars>>

\* writeln!(file, "{}", t).unwrap()
Write(f, t, at, next) ==
  /\ pc = at
  /\ \/ /\ fs' = Writeln(fs, f, t)
        /\ pc' = next
        /\ UNCHANGED exitStatus
     \/ /\ Panicked
        /\ UNCHANGED fs
  /\ UNCHANGED <<targetArg, inputArg, nightlyArg, target, xml, req, items,
                 device_x, returned, chain, calls, fs0, created, stdout,
                 errLog, idx, prev, buildVars>>

CreateLib == Create("lib.rs", "create_lib", "write_lib")

WriteLib == Write("lib.rs", items, "write_lib", "create_devx")

CreateDeviceX == Create("device.x", "create_devx", "write_devx")

WriteDeviceX == Write("device.x", device_x, "write_devx", "create_build")

CreateBuild == Create("build.rs", "create_build", "write_build")

WriteBuild == Write("build.rs", build_rs, "write_build", "return_ok")

\* println!("{}", quote!(#(#items)*))
PrintItems ==
  /\ pc = "print"
  /\ \/ /\ stdout' = Println(stdout, items)
        /\ pc' = "return_ok"
        /\ UNCHANGED exitStatus
     \/ /\ Panicked
        /\ UNCHANGED stdout
  /\ UNCHANGED <<targetArg, inputArg, nightlyArg, target, xml, req, items,
                 device_x, returned, chain, calls, fs, fs0, created, errLog,
                 idx, prev, buildVars>>

\* Ok(())
ReturnOk ==
  /\ pc = "return_ok"
  /\ returned' = "ok"
  /\ pc' = "main"
  /\ UNCHANGED <<targetArg, inputArg, nightlyArg, target, xml, req, items,
                 device_x, chain, calls, fs, fs0, created, stdout, errLog,
                 idx, exitStatus, prev, buildVars>>

----------------------------------------------------------------------------
\* main()

\* run() returned Ok: main falls off its end
MainOk ==
  /\ pc = "main"
  /\ returned = "ok"
  /\ pc' = "exited"
  /\ exitStatus' = 0
  /\ UNCHANGED <<targetArg, inputArg, nightlyArg, target, xml, req, items,
                 device_x, returned, chain, calls, fs, fs0, created, stdout,
                 errLog, idx, prev, buildVars>>

\* the loop over the chain started at the error itself
ReportTop_NoSkip ==
  /\ pc = "main"
  /\ returned = "err"
  /\ errLog' = Append(errLog, [kind |-> "error", msg |-> chain[1]])
  /\ idx' = 1
  /\ pc' = "causes"
  /\ UNCHANGED <<targetArg, inputArg, nightlyArg, target, xml, req, items,
                 device_x, returned, chain, calls, fs, fs0, created, stdout,
                 exitStatus, prev, buildVars>>

\* error!("{}", e)
ReportTop ==
  /\ pc = "main"
  /\ returned = "err"
  /\ errLog' = Append(errLog, [kind |-> "error", msg |-> chain[1]])
  /\ idx' = 2
  /\ pc' = "causes"
  /\ UNCHANGED <<targetArg, inputArg, nightlyArg, target, xml, req, items,
                 device_x, returned, chain, calls, fs, fs0, created, stdout,
                 exitStatus, prev, buildVars>>

\* for e in e.iter().skip(1) { error!("caused by: {}", e) }
ReportCause ==
  /\ pc = "causes"
  /\ idx <= Len(chain)
  /\ errLog' = Append(errLog, [kind |-> "caused by", msg |-> chain[idx]])
  /\ idx' = idx + 1
  /\ UNCHANGED <<pc, targetArg, inputArg, nightlyArg, target, xml, req, items,
                 device_x, returned, chain, calls, fs, fs0, created, stdout,
                 exitStatus, prev, buildVars>>

\* if let Some(backtrace) = e.backtrace() { error!(..) } else { error!(..) }
ReportBacktrace ==
  /\ pc = "causes"
  /\ idx > Len(chain)
  /\ \E k \in {"backtrace", "note"} :
       errLog' = Append(errLog, [kind |-> k, msg |-> Msg("", "")])
  /\ pc' = "exit"
  /\ UNCHANGED <<targetArg, inputArg, nightlyArg, target, xml, req, items,
                 device_x, returned, chain, calls, fs, fs0, created, stdout,
                 idx, exitStatus, prev, buildVars>>

\* process::exit(1)
Exit1 ==
  /\ pc = "exit"
  /\ pc' = "exited"
  /\ exitStatus' = 1
  /\ UNCHANGED <<targetArg, inputArg, nightlyArg, target, xml, req, items,
                 device_x, returned, chain, calls, fs, fs0, created, stdout,
                 errLog, idx, prev, buildVars>>

----------------------------------------------------------------------------
\* The program that build_rs() generates, run by the build of the generated
\* crate after a generation that returned Ok, once build.rs and device.x are
\* in place.

BuildPanicked == bpc' = "panicked"

\* the build script is compiled (include_bytes!("device.x")) and started
BuildStart ==
  /\ pc = "exited"
  /\ returned = "ok"
  /\ bpc \in {"off", "done", "panicked"}
  /\ fs["build.rs"] = [exists |-> TRUE, data |-> <<build_rs>>]
  /\ fs["device.x"].exists
  /\ \E r \in BOOLEAN : rt' = r
  /\ outFile' = NoFile
  /\ cargoOut' = <<>>
  /\ bpc' = "check"
  /\ UNCHANGED runVars

\* the copy made whatever the feature
BuildCheck_Always ==
  /\ bpc = "check"
  /\ bpc' = "out_dir"
  /\ UNCHANGED <<runVars, rt, outFile, cargoOut>>

\* if env::var_os("CARGO_FEATURE_RT").is_some()
BuildCheck ==
  /\ bpc = "check"
  /\ bpc' = IF rt THEN "out_dir" ELSE "rerun_build"
  /\ UNCHANGED <<runVars, rt, outFile, cargoOut>>

\* let out = &PathBuf::from(env::var_os("OUT_DIR").unwrap())
BuildOutDir ==
  /\ bpc = "out_dir"
  /\ \/ bpc' = "create"
     \/ BuildPanicked
  /\ UNCHANGED <<runVars, rt, outFile, cargoOut>>

\* File::create(out.join("device.x")).unwrap()
BuildCreate ==
  /\ bpc = "create"
  /\ \/ /\ outFile' = [exists |-> TRUE, data |-> <<>>]
        /\ bpc' = "write_all"
     \/ /\ BuildPanicked
        /\ UNCHANGED outFile
  /\ UNCHANGED <<runVars, rt, cargoOut>>

\* .write_all(include_bytes!("device.x")).unwrap()
BuildWriteAll ==
  /\ bpc = "write_all"
  /\ \/ /\ outFile' = [outFile EXCEPT !.data = @ \o fs["device.x"].data]
        /\ bpc' = "link_search"
     \/ /\ BuildPanicked
        /\ UNCHANGED outFile
  /\ UNCHANGED <<runVars, rt, cargoOut>>

\* println!(directive)
BuildPrintln(directive, at, next) ==
  /\ bpc = at
  /\ \/ /\ cargoOut' = Append(cargoOut, directive)
        /\ bpc' = next
     \/ /\ BuildPanicked
        /\ UNCHANGED cargoOut
  /\ UNCHANGED <<runVars, rt, outFile>>

BuildLinkSearch ==
  BuildPrintln("cargo:rustc-link-search=OUT_DIR", "link_search", "rerun_devx")

BuildRerunDeviceX ==
  BuildPrintln("cargo:rerun-if-changed=device.x", "rerun_devx", "rerun_build")

BuildRerunBuild ==
  BuildPrintln("cargo:rerun-if-changed=build.rs", "rerun_build", "done")

----------------------------------------------------------------------------

Next ==
  \/ GetMatches
  \/ SelectTarget
  \/ ReadFile
  \/ ReadStdin
  \/ ParseAndRender
  \/ CreateLib
  \/ WriteLib
  \/ CreateDeviceX
  \/ WriteDeviceX
  \/ CreateBuild
  \/ WriteBuild
  \/ PrintItems
  \/ ReturnOk
  \/ MainOk
  \/ ReportTop
  \/ ReportCause
  \/ ReportBacktrace
  \/ Exit1
  \/ BuildStart
  \/ BuildCheck
  \/ BuildOutDir
  \/ BuildCreate
  \/ BuildWriteAll
  \/ BuildLinkSearch
  \/ BuildRerunDeviceX
  \/ BuildRerunBuild

Spec == Init /\ [][Next]_vars

----------------------------------------------------------------------------
\* Vocabulary of the properties

\* no invocation has happened yet
Idle == exitStatus = 0 /\ returned = "none"

\* the process has ended
Terminated == pc = "exited" /\ ~Idle

\* run() returned the error of Target::parse
UnknownTarget == returned = "err" /\ chain[1].msg = "unknown target"

\* run() returned one of the three input errors
InputError ==
  /\ returned = "err"
  /\ chain[1].msg \in {"couldn't open the SVD file",
                       "couldn't read the SVD file",
                       "couldn't read from stdin"}

Called(c) == \E i \in DOMAIN calls : calls[i] = c

\* the input sources this invocation has opened or read
Sources ==
  {"file" : i \in {j \in DOMAIN calls : calls[j] \in {"open_file", "read_file"}}}
  \cup {"stdin" : i \in {j \in DOMAIN calls : calls[j] = "read_stdin"}}

Written(t) == [exists |-> TRUE, data |-> <<t>>]

\* the three files hold exactly what this invocation rendered
AllWritten ==
  /\ created = OutFiles
  /\ fs["lib.rs"] = Written(Render(req).items)
  /\ fs["device.x"] = Written(Render(req).device_x)
  /\ fs["build.rs"] = Written(build_rs)

\* this invocation and the last successful one had the same document and target
SameDocAndTarget ==
  /\ prev.valid
  /\ prev.xml = xml
  /\ prev.req.target = target

Directives == {cargoOut[i] : i \in DOMAIN cargoOut}

----------------------------------------------------------------------------
\* C1: a selector is accepted exactly when it is "cortex-m", "msp430",
\* "riscv" or "none"; any other selector makes run() return the unknown-target
\* error, and in a run that returned it no input was opened or read and
\* neither svd::parse nor render was called.
C1_UnknownTargetBeforeInput ==
  (pc # "target" /\ ~Idle /\ targetArg # NoArg) =>
    /\ (target \in Targets) <=>
         (targetArg \in {"cortex-m", "msp430", "riscv", "none"})
    /\ UnknownTarget <=>
         (targetArg \notin {"cortex-m", "msp430", "riscv", "none"})
    /\ UnknownTarget =>
         /\ chain = <<Msg("unknown target", targetArg)>>
         /\ calls = <<>>
         /\ xml = ""
         /\ req = NoReq

C1_Witness ==
  /\ Terminated
  /\ UnknownTarget
  /\ targetArg = "CORTEX-M"
  /\ exitStatus = 1

\* C2: after run() returned Ok, CortexM has written exactly lib.rs, device.x
\* and build.rs and printed nothing; every other target has printed exactly
\* the code stream and created no file.
C2_ArtifactsByTarget ==
  returned = "ok" =>
    IF target = "CortexM"
      THEN /\ AllWritten
           /\ stdout = <<>>
      ELSE /\ created = {}
           /\ fs = fs0
           /\ stdout = <<Render(req).items>>
           /\ stdout[1].kind = "items"

C2_Witness ==
  /\ Terminated
  /\ returned = "ok"
  /\ target = "RISCV"
  /\ prev.valid
  /\ prev.req.target = "CortexM"
  /\ prev.out = <<>>
  /\ \A f \in OutFiles : prev.files[f].exists

\* C3 as stated: the build script copies device.x and registers the search
\* path only when the feature is set, and without the feature it creates no
\* file and prints no directive at all.
C3_NoOpWithoutFeature ==
  /\ outFile.exists => rt
  /\ (bpc = "done" /\ ~rt) => (outFile = NoFile /\ cargoOut = <<>>)

\* C3 amended: the build script copies device.x and prints the link-search
\* and rerun-if-changed=device.x directives only when the feature is set;
\* without the feature it creates no file and prints exactly one directive,
\* cargo:rerun-if-changed=build.rs, which it prints in both cases.
C3_OnlyRerunBuildWithoutFeature ==
  /\ outFile.exists => rt
  /\ (Directives \cap {"cargo:rustc-link-search=OUT_DIR",
                       "cargo:rerun-if-changed=device.x"} # {}) =>
       (rt /\ outFile = [exists |-> TRUE, data |-> fs["device.x"].data])
  /\ (bpc = "done" /\ ~rt) =>
       /\ outFile = NoFile
       /\ cargoOut = <<"cargo:rerun-if-changed=build.rs">>
  /\ (bpc = "done" /\ rt) =>
       cargoOut = <<"cargo:rustc-link-search=OUT_DIR",
                    "cargo:rerun-if-changed=device.x",
                    "cargo:rerun-if-changed=build.rs">>

C3_Witness ==
  /\ bpc = "done"
  /\ ~rt
  /\ Len(cargoOut) = 1

\* C4: when run() returns an error (target, input or render), no output file
\* has been created or truncated, the directory is as the invocation found
\* it, and nothing is on standard output.
C4_NoOutputOnError ==
  returned = "err" =>
    /\ created = {}
    /\ fs = fs0
    /\ stdout = <<>>

C4_Witness ==
  /\ Terminated
  /\ returned = "err"
  /\ chain[1].msg = "ModelError"
  /\ target = "CortexM"
  /\ fs["lib.rs"].exists
  /\ fs["lib.rs"].data # <<>>

\* C5: an invocation that returns Ok with the document, target and flag of
\* the last successful invocation leaves the same artifacts as that one, and
\* each file it created holds one write of this invocation, whatever the
\* directory held before.
C5_SameInputsSameArtifacts ==
  returned = "ok" =>
    /\ (SameDocAndTarget /\ prev.nightly = nightlyArg) =>
         /\ Artifacts.files = prev.files
         /\ Artifacts.out = prev.out
    /\ \A f \in created : Len(fs[f].data) = 1
    /\ target = "CortexM" => AllWritten

C5_Witness ==
  /\ Terminated
  /\ returned = "ok"
  /\ target = "CortexM"
  /\ SameDocAndTarget
  /\ prev.nightly = nightlyArg
  /\ fs0["lib.rs"] # prev.files["lib.rs"]
  /\ fs0["lib.rs"].data # <<>>

C7_ExactlyOneSourcePerInvocation ==
  Terminated =>
    Sources = (IF inputArg # NoArg THEN {"file"} ELSE {"stdin"})

\* C7 amended: no invocation uses both sources; every invocation whose target
\* selection succeeded uses exactly one, the file when -i is given and
\* standard input otherwise (an invocation that fails with the unknown-target
\* error uses none); when the file cannot be opened or the source cannot be
\* read, run() returns the corresponding error and neither svd::parse nor
\* render is called.
C7_OneSourceAfterTargetSelection ==
  /\ Cardinality(Sources) <= 1
  /\ (~Idle /\ pc \notin {"target", "input"}) =>
       Sources = (IF UnknownTarget THEN {}
                  ELSE IF inputArg # NoArg THEN {"file"} ELSE {"stdin"})
  /\ InputError =>
       /\ ~Called("parse")
       /\ ~Called("render")
       /\ xml = ""
       /\ chain[1].msg = "couldn't open the SVD file" =>
            (inputArg # NoArg /\ calls = <<"open_file">>)
       /\ chain[1].msg = "couldn't read the SVD file" =>
            (inputArg # NoArg /\ calls = <<"open_file", "read_file">>)
       /\ chain[1].msg = "couldn't read from stdin" =>
            (inputArg = NoArg /\ calls = <<"read_stdin">>)

C7_Witness ==
  /\ Terminated
  /\ InputError
  /\ inputArg # NoArg
  /\ chain[1].msg = "couldn't read the SVD file"

C9_OneSelectionDrivesOutput ==
  /\ [](/\ (pc # "target" /\ ~Idle /\ targetArg = NoArg) =>
             (target = "CortexM" /\ ~UnknownTarget)
        /\ \A s1, s2 \in {"cortex-m", "msp430", "riscv", "none"} :
             /\ TargetParse(s1).ok
             /\ TargetParse(s1).val \in Targets
             /\ s1 # s2 => TargetParse(s1).val # TargetParse(s2).val
        /\ (pc # "target" /\ ~Idle /\ targetArg \in AcceptedSelectors) =>
             target = TargetParse(targetArg).val
        /\ req # NoReq => req.target = target
        /\ created # {} => req.target = "CortexM"
        /\ stdout # <<>> => req.target # "CortexM"
        /\ returned = "ok" =>
             (created = OutFiles <=> req.target = "CortexM"))
  /\ [][target # "" /\ pc # "exited" => target' = target]_vars

C9_Witness ==
  /\ Terminated
  /\ returned = "ok"
  /\ targetArg = NoArg
  /\ req.target = "CortexM"
  /\ created = OutFiles

\* C10: in every terminated CortexM run either lib.rs, device.x and build.rs
\* all hold this run's contents or none of them was created or modified.
C10_FilesAllOrNothing ==
  (Terminated /\ target = "CortexM") =>
    \/ AllWritten
    \/ (created = {} /\ fs = fs0)

====
